---- MODULE Spec2Model ----
(***************************************************************************)
(* gotablestats: the sampling reader (CSVReader.ReadTable, sampleRecords,  *)
(* readFromPosition, estimateRowCount), the column analyzer                *)
(* (analyzeColumn) and the command front end (validateConfig,              *)
(* processFile).                                                           *)
(*                                                                         *)
(* A string is a sequence of one-character strings; a line of a file is    *)
(* such a string without its terminating newline; a file is a sequence of  *)
(* lines, every line being followed by one newline byte on disk.          *)
(***************************************************************************)
EXTENDS Integers, Sequences, FiniteSets, TLC

(***************************************************************************)
(* Bounds of the model.                                                    *)
(***************************************************************************)
\* data lines of a file on disk
MaxRows == 2
\* largest SampleSize flag value
MaxSampleSize == 2
\* largest RandomPositions flag value
MaxPositions == 2
\* records handed directly to the column analyzer
MaxRecords == 3
\* records handed to the end of ReadTable, more than its preview holds
MaxPreviewRecords == 6
\* largest file size and byte count handed directly to estimateRowCount
MaxEstimateBytes == 6

\* the generator: the rows asked for, the workers, and the rows of a batch
\* (10000 in the source)
MaxGeneratorRows == 3

MaxWorkers == 2

batchSize == 2

\* the capacity of recordChan
RecordChanCap == 100

\* the goroutine of generateCSV, and the recordGenerator goroutines
Writer == 0

WorkerIds == 1..MaxWorkers

Goroutines == {Writer} \cup WorkerIds
\* size of the bufio.Reader buffer (4096 in the Go library), scaled to the
\* model's line lengths: no line of the model is longer than this
BufSize == 8
\* bits of the significand of a float64 (53 in Go), scaled down; every
\* integer up to 100 keeps its value
Precision == 7
\* values handed directly to the aggregate calculator
MaxValues == 3

(***************************************************************************)
(* Strings.                                                                *)
(***************************************************************************)
TAB == "\t"
QUOTE == "\""

\* the byte value of a character (Go compares strings bytewise)
Code(c) ==
    CASE c = TAB -> 9
      [] c = " " -> 32
      [] c = QUOTE -> 34
      [] c = "+" -> 43
      [] c = "," -> 44
      [] c = "-" -> 45
      [] c = "." -> 46
      [] c = "0" -> 48
      [] c = "1" -> 49
      [] c = "2" -> 50
      [] c = "3" -> 51
      [] c = "4" -> 52
      [] c = "5" -> 53
      [] c = "6" -> 54
      [] c = "7" -> 55
      [] c = "8" -> 56
      [] c = "9" -> 57
      [] c = "L" -> 76
      [] c = "N" -> 78
      [] c = "U" -> 85
      [] c = "a" -> 97
      [] c = "b" -> 98
      [] c = "l" -> 108
      [] c = "n" -> 110
      [] c = "u" -> 117
      [] c = "x" -> 120

Digit == {"0", "1", "2", "3", "4", "5", "6", "7", "8", "9"}

DigitVal(c) == Code(c) - 48

DigitChar(d) == CHOOSE c \in Digit : DigitVal(c) = d

\* the characters unicode.IsSpace accepts, among those of the model
IsSpace(c) == c \in {" ", TAB}

Min(a, b) == IF a < b THEN a ELSE b

Max(a, b) == IF a > b THEN a ELSE b

RECURSIVE TrimLeft(_)
TrimLeft(s) ==
    IF s # <<>> /\ IsSpace(Head(s)) THEN TrimLeft(Tail(s)) ELSE s

RECURSIVE TrimRight(_)
TrimRight(s) ==
    IF s # <<>> /\ IsSpace(s[Len(s)])
    THEN TrimRight(SubSeq(s, 1, Len(s) - 1))
    ELSE s

\* strings.TrimSpace
TrimSpace(s) == TrimRight(TrimLeft(s))

\* strings.Contains(s, c) for a one-character c
Contains(s, c) == \E k \in 1..Len(s) : s[k] = c

\* Go's s < t on strings: bytewise lexicographic order
RECURSIVE StrLess(_, _)
StrLess(s, t) ==
    IF t = <<>> THEN FALSE
    ELSE IF s = <<>> THEN TRUE
    ELSE IF Code(Head(s)) # Code(Head(t)) THEN Code(Head(s)) < Code(Head(t))
    ELSE StrLess(Tail(s), Tail(t))

StrGreater(s, t) == StrLess(t, s)

(***************************************************************************)
(* float64.  A float64 of the model is an integer number of units          *)
(* 2^-FracBits whose significand has at most Precision bits (53 in Go);    *)
(* below 2^Precision units every integer is a value (the subnormal range). *)
(* Each operation yields the exact result rounded to the nearest value,    *)
(* ties to the even significand.  NaN and the infinities are not values of *)
(* the model.                                                              *)
(***************************************************************************)
RECURSIVE Pow10(_)
Pow10(n) == IF n = 0 THEN 1 ELSE 10 * Pow10(n - 1)

\* the factor of the six fraction digits of %020.6f
Micro == Pow10(6)

RECURSIVE Pow2(_)
Pow2(n) == IF n = 0 THEN 1 ELSE 2 * Pow2(n - 1)

\* the weight of the unit: 1.0 is 2^FracBits units
FracBits == Precision + 1

One == Pow2(FracBits)

Abs(x) == IF x < 0 THEN 0 - x ELSE x

\* the integer nearest to num / den (den > 0), ties to even
RoundInt(num, den) ==
    LET q == num \div den
        r == num % den
    IN  IF 2 * r < den THEN q
        ELSE IF 2 * r > den THEN q + 1
        ELSE IF q % 2 = 0 THEN q ELSE q + 1

\* the binary exponent of num / den >= 0: the least e >= 0 with
\* num / den < 2^(Precision + e)
RECURSIVE Exponent(_, _)
Exponent(num, den) ==
    IF num < Pow2(Precision) * den THEN 0 ELSE 1 + Exponent(num, 2 * den)

\* the float64 nearest to num / den units (den > 0)
Round(num, den) ==
    LET e == Exponent(Abs(num), den)
    IN  RoundInt(num, den * Pow2(e)) * Pow2(e)

\* float64(n) of an int
FromInt(n) == Round(n * One, 1)

\* x + y, x - y, x * y and x / y (y # 0) on float64
FAdd(x, y) == Round(x + y, 1)

FSub(x, y) == Round(x - y, 1)

FMul(x, y) == Round(x * y, One)

FDiv(x, y) == IF y > 0 THEN Round(x * One, y) ELSE Round((0 - x) * One, 0 - y)

\* int(x): the fraction is dropped
ToInt(x) == IF x >= 0 THEN x \div One ELSE 0 - ((0 - x) \div One)

\* math.Floor and math.Ceil, converted to int
Floor(x) == x \div One

Ceil(x) == 0 - ((0 - x) \div One)

(***************************************************************************)
(* strconv.ParseFloat(value, 64) on the decimal grammar                    *)
(* [+-] digits [. digits] with at least one digit: the float64 nearest to  *)
(* the decimal.  (Exponents, hex floats, "inf" and "nan" do not occur      *)
(* among the values of the model.)                                         *)
(***************************************************************************)
RECURSIVE DigitsVal(_)
DigitsVal(s) ==
    IF s = <<>> THEN 0 ELSE 10 * DigitsVal(SubSeq(s, 1, Len(s) - 1)) + DigitVal(s[Len(s)])

AllDigits(s) == \A k \in 1..Len(s) : s[k] \in Digit

ParseFloat(value) ==
    LET signed == value # <<>> /\ Head(value) \in {"+", "-"}
        neg == value # <<>> /\ Head(value) = "-"
        body == IF signed THEN Tail(value) ELSE value
        dots == {k \in 1..Len(body) : body[k] = "."}
        dot == IF dots = {} THEN Len(body) + 1 ELSE CHOOSE k \in dots : \A j \in dots : k <= j
        ip == SubSeq(body, 1, dot - 1)
        fp == SubSeq(body, dot + 1, Len(body))
        ok == /\ Cardinality(dots) <= 1
              /\ AllDigits(ip)
              /\ AllDigits(fp)
              /\ Len(ip) + Len(fp) >= 1
        mag == IF ok THEN Round(DigitsVal(ip \o fp) * One, Pow10(Len(fp))) ELSE 0
    IN  [ok |-> ok, val |-> IF neg THEN 0 - mag ELSE mag]

(***************************************************************************)
(* encoding/csv on one line.  The lines of the model hold no quoted field  *)
(* (no field begins with a quote), so a record is one line, and the only   *)
(* parse errors are a bare quote inside a field and a wrong field count.   *)
(***************************************************************************)
RECURSIVE Split(_, _)
Split(line, delim) ==
    LET at == {k \in 1..Len(line) : line[k] = delim}
    IN  IF at = {} THEN <<line>>
        ELSE LET k == CHOOSE j \in at : \A m \in at : j <= m
             IN  <<SubSeq(line, 1, k - 1)>> \o Split(SubSeq(line, k + 1, Len(line)), delim)

\* the fields of readRecord's parseField loop: it stops at the first field
\* holding a bare quote and keeps the fields before it
ParseFields(line, delim) ==
    LET all == Split(line, delim)
        bad == {k \in 1..Len(all) : Contains(all[k], QUOTE)}
        first == IF bad = {} THEN Len(all) + 1 ELSE CHOOSE k \in bad : \A m \in bad : k <= m
    IN  [fields |-> SubSeq(all, 1, first - 1),
         err |-> IF bad = {} THEN "" ELSE "ErrBareQuote"]

\* csv.Reader.Read on a line, the reader having FieldsPerRecord = fpr
\* (0: not yet set, the record read sets it, also when it ends in an error)
CsvRead(line, delim, fpr) ==
    LET p == ParseFields(line, delim)
        n == Len(p.fields)
    IN  [record |-> p.fields,
         err |-> IF p.err # "" THEN p.err
                 ELSE IF fpr > 0 /\ n # fpr THEN "ErrFieldCount"
                 ELSE "",
         fpr |-> IF fpr > 0 THEN fpr ELSE n]

\* ReadAll that leaves out the records in error, as readFromPosition does
RECURSIVE ReadAll_SkipErrors(_, _, _, _, _)
ReadAll_SkipErrors(lines, k, delim, fpr, acc) ==
    IF k > Len(lines) THEN [records |-> acc, err |-> ""]
    ELSE LET r == CsvRead(lines[k], delim, fpr)
         IN  ReadAll_SkipErrors(lines, k + 1, delim, r.fpr,
                                IF r.err # "" THEN acc ELSE Append(acc, r.record))

\* csv.Reader.ReadAll from line k on: every record up to the end of the
\* file, or the first error
RECURSIVE ReadAll(_, _, _, _, _)
ReadAll(lines, k, delim, fpr, acc) ==
    IF k > Len(lines) THEN [records |-> acc, err |-> ""]
    ELSE LET r == CsvRead(lines[k], delim, fpr)
         IN  IF r.err # "" THEN [records |-> <<>>, err |-> r.err]
             ELSE ReadAll(lines, k + 1, delim, r.fpr, Append(acc, r.record))

(***************************************************************************)
(* Bytes of a file.                                                        *)
(***************************************************************************)
\* the offset of the first byte of line k (of the end of the file for
\* k = Len(lines) + 1)
RECURSIVE Offset(_, _)
Offset(lines, k) ==
    IF k <= 1 THEN 0 ELSE Offset(lines, k - 1) + Len(lines[k - 1]) + 1

FileSize(lines) == Offset(lines, Len(lines) + 1)

\* the line that holds byte pos
LineAt(lines, pos) ==
    CHOOSE k \in 1..Len(lines) : Offset(lines, k) <= pos /\ pos < Offset(lines, k + 1)

(***************************************************************************)
(* readFromPosition after a successful ReadLine.  The bufio.Reader holds   *)
(* the bytes from the consumer's position up to fpos, the offset of the    *)
(* file; when the buffered bytes hold no whole line it refills, up to      *)
(* BufSize bytes from the consumer's position.                             *)
(***************************************************************************)
Fill(lines, cpos) == Min(FileSize(lines), cpos + BufSize)

\* the loop body appending whatever csvReader.Read returned, the fields
\* before the error of a malformed record too
Collect_KeepPartial(acc, r) == Append(acc, r.record)

\* the loop body after csvReader.Read returned r: a record in error is
\* skipped, any other is appended
Collect(acc, r) == IF r.err # "" THEN acc ELSE Append(acc, r.record)

\* the loop of readFromPosition: n iterations left, the next line is k
RECURSIVE ReadLoop(_, _, _, _, _, _, _)
ReadLoop(lines, k, n, delim, fpr, fpos, acc) ==
    IF n = 0 \/ k > Len(lines) THEN [records |-> acc, fpos |-> fpos]
    ELSE LET r == CsvRead(lines[k], delim, fpr)
             f == IF Offset(lines, k + 1) > fpos THEN Fill(lines, Offset(lines, k)) ELSE fpos
         IN  ReadLoop(lines, k + 1, n - 1, delim, r.fpr, f, Collect(acc, r))

\* readFromPosition(file, maxRecords), the file being at offset pos: the
\* rest of the line that holds pos is thrown away, then up to maxRecords
\* lines are read as records.  fpos is where the file stands afterwards.
readFromPosition(lines, pos, maxRecords, delim) ==
    ReadLoop(lines, LineAt(lines, pos) + 1, maxRecords, delim, 0, Fill(lines, pos), <<>>)

(***************************************************************************)
(* The inputs of the model.                                                *)
(***************************************************************************)
\* header lines: a,b   a,a   and a"  (a bare quote: the header does not parse)
HeaderLines == {<<"a", ",", "b">>, <<"a", ",", "a">>, <<"a", QUOTE>>}

\* data lines: 7,ab   ab,7   10 (one field)   1,a"b (a bare quote after one
\* field)
DataLines ==
    {<<"7", ",", "a", "b">>,
     <<"a", "b", ",", "7">>,
     <<"1", "0">>,
     <<"1", ",", "a", QUOTE, "b">>}

RECURSIVE SeqsUpTo(_, _)
SeqsUpTo(S, n) ==
    IF n = 0 THEN {<<>>}
    ELSE LET shorter == SeqsUpTo(S, n - 1)
         IN  shorter \cup {Append(q, x) : q \in {r \in shorter : Len(r) = n - 1}, x \in S}

\* the files on disk: the zero-byte file, and a header line followed by up
\* to MaxRows data lines
Files == {<<>>} \cup {<<h>> \o d : h \in HeaderLines, d \in SeqsUpTo(DataLines, MaxRows)}

\* the --max-size flag: its default (100 MiB), and a size below that of any
\* file whose header parses, so that every such file is sampled
DefaultMaxFileSize == 100 * 1024 * 1024

MaxFileSizes == {3, DefaultMaxFileSize}

\* the float64 NaN, which the --confidence flag accepts (its value is parsed
\* by strconv.ParseFloat): a number apart from the confidences of the model
\* stands for it
NaN == 0 - DefaultMaxFileSize

\* x <= y and x >= y on float64: false when either is NaN
FLeq(x, y) == x # NaN /\ y # NaN /\ x <= y

FGeq(x, y) == x # NaN /\ y # NaN /\ x >= y

\* Confidence, in hundredths
Configs ==
    [SampleSize : -1..MaxSampleSize,
     RandomPositions : -1..MaxPositions,
     Confidence : {0, 95, 100},
     MaxFileSize : MaxFileSizes]

\* the configurations the flags can give when --confidence may also be
\* negative, above 1 or NaN
FlagConfigs ==
    [SampleSize : -1..MaxSampleSize,
     RandomPositions : -1..MaxPositions,
     Confidence : {-5, 0, 1, 95, 99, 100, 150, NaN},
     MaxFileSize : MaxFileSizes]

\* the extension of the --input path
Exts == {".csv", ".CSV", ".tsv", ".txt"}

\* strings.ToLower on an extension
ToLower(e) == IF e = ".CSV" THEN ".csv" ELSE e

(***************************************************************************)
(* State.                                                                  *)
(***************************************************************************)
VARIABLES
    pc,             \* where the command stands
    config,         \* the SamplingConfig
    ext,            \* the lower-cased extension of the accessible input path
    reader,         \* the TableReader processFile chose
    lines,          \* the content of the file on disk
    fileOpen,       \* the file handle of ReadTable is open
    fileSize,       \* fileInfo.Size()
    stats,          \* the TableStats ReadTable builds; NoStats: nil
    records,        \* the records ReadTable analyses
    readerBytes,    \* bytes consumed by the sampling
    i,              \* the loop counter of sampleRecords
    allRecords,     \* the records sampleRecords has collected
    lastIo,         \* what the I/O of the last sampling position did
    colIdx,         \* the column analyzeColumn works on (from 0)
    recIdx,         \* the records of it analyzeColumn has gone through
    nullCount, minVal, maxVal, isNumeric, isFloat, numericValues,
    result,         \* "": running; "ok"; an error message; "panic: ..."
    calc,           \* a call of calculateAggregates and of calculatePercentile
    generatorConfig,    \* the Config of the data generator
    goroutines,         \* where the writer and each recordGenerator stand
    batch,              \* the batch each goroutine holds
    recordChan,         \* the buffer of recordChan and its waiting receivers
    done,               \* the values passed over the done channel
    recordsGenerated,   \* the counter of generateCSV
    file,               \* the rows written to the output file
    err                 \* what generateCSV returned

vars ==
    <<pc, config, ext, reader, lines, fileOpen, fileSize, stats, records, readerBytes, i,
      allRecords, lastIo, colIdx, recIdx, nullCount, minVal, maxVal, isNumeric, isFloat,
      numericValues, result, calc, generatorConfig, goroutines, batch, recordChan, done,
      recordsGenerated, file, err>>

\* the variables of the data generator
generatorVars ==
    <<generatorConfig, goroutines, batch, recordChan, done, recordsGenerated, file, err>>

\* the variables of the command and of ReadTable
tableVars ==
    <<pc, config, ext, reader, lines, fileOpen, fileSize, stats, records, readerBytes, i,
      allRecords, lastIo, colIdx, recIdx, nullCount, minVal, maxVal, isNumeric, isFloat,
      numericValues, result>>

scanVars == <<readerBytes, i, allRecords, lastIo>>

columnVars == <<colIdx, recIdx, nullCount, minVal, maxVal, isNumeric, isFloat, numericValues>>

\* an interface{} value: nil, a float64 or a string
Nil == [t |-> "nil", f |-> 0, s |-> <<>>]

Float(x) == [t |-> "float64", f |-> x, s |-> <<>>]

Str(x) == [t |-> "string", f |-> 0, s |-> x]

EmptyMap == <<>>

\* m[k] = v on a Go map
Put(m, k, v) == [x \in DOMAIN m \cup {k} |-> IF x = k THEN v ELSE m[x]]

\* the nil *TableStats
NoStats ==
    [set |-> FALSE, RowCount |-> 0, EstimatedRows |-> 0, ColumnCount |-> 0,
     ColumnNames |-> <<>>, ColumnTypes |-> EmptyMap, NullCounts |-> EmptyMap,
     NullPercentage |-> EmptyMap, MinValues |-> EmptyMap, MaxValues |-> EmptyMap,
     SampleData |-> <<>>, Aggregates |-> EmptyMap]

\* the TableStats ReadTable allocates once the header is read
NewStats(header) ==
    [NoStats EXCEPT !.set = TRUE, !.ColumnCount = Len(header), !.ColumnNames = header]

NoConfig == [SampleSize |-> 0, RandomPositions |-> 0, Confidence |-> 0, MaxFileSize |-> 0]

NoReader == [format |-> "", Delimiter |-> "nil"]

\* the zero AggregateStats
NoAggregates ==
    [Count |-> 0, Sum |-> 0, Mean |-> 0, Median |-> 0, Variance |-> 0, Percentiles |-> EmptyMap]

\* no call of the aggregate calculator under way.  input: the slice as the
\* caller passed it; values: the caller's slice; sortedValues: the sorted
\* copy; aggregates: what calculateAggregates returned; percentile, value:
\* the rank given to calculatePercentile, and what it returned
NoCalc ==
    [step |-> "", input |-> <<>>, values |-> <<>>, sortedValues |-> <<>>,
     aggregates |-> NoAggregates, percentile |-> 0, value |-> 0]

\* no batch held
NoBatch == [size |-> 0 - 1, filled |-> FALSE]

\* the generator is not running
NoGenerator ==
    /\ generatorConfig = [Rows |-> 0, Workers |-> 0]
    /\ goroutines = [g \in Goroutines |-> "none"]
    /\ batch = [g \in Goroutines |-> NoBatch]
    /\ recordChan = [buf |-> <<>>, recvq |-> <<>>]
    /\ done = 0
    /\ recordsGenerated = 0
    /\ file = <<>>
    /\ err = ""

Init ==
    /\ pc = "run"
    /\ config = NoConfig
    /\ ext = ""
    /\ reader = NoReader
    /\ lines = <<>>
    /\ fileOpen = FALSE
    /\ fileSize = 0
    /\ stats = NoStats
    /\ records = <<>>
    /\ readerBytes = 0
    /\ i = 0
    /\ allRecords = <<>>
    /\ lastIo = ""
    /\ colIdx = 0
    /\ recIdx = 0
    /\ nullCount = 0
    /\ minVal = Nil
    /\ maxVal = Nil
    /\ isNumeric = TRUE
    /\ isFloat = FALSE
    /\ numericValues = <<>>
    /\ result = ""
    /\ calc = NoCalc
    /\ NoGenerator

(***************************************************************************)
(* The command: rootCmd.Run, validateConfig, processFile.                  *)
(***************************************************************************)
validateConfig(c) ==
    IF c.SampleSize <= 0 THEN "sample size must be positive"
    ELSE IF c.RandomPositions <= 0 THEN "random positions must be positive"
    ELSE IF FLeq(c.Confidence, 0) \/ FGeq(c.Confidence, 100)
    THEN "confidence must be between 0 and 1"
    ELSE ""

\* ReadTable returning (nil, err) with the file left open, as if Close were
\* called at the end of the success path only
Fail_LeaveOpen(msg) ==
    /\ pc' = "done"
    /\ result' = msg
    /\ stats' = NoStats
    /\ fileOpen' = fileOpen

\* ReadTable returns (nil, err); the deferred file.Close() has run
Fail(msg) ==
    /\ pc' = "done"
    /\ result' = msg
    /\ stats' = NoStats
    /\ fileOpen' = FALSE

\* a run-time panic unwinds ReadTable (the deferred file.Close() runs) and
\* ends the process
Panic(msg) ==
    /\ pc' = "done"
    /\ result' = msg
    /\ stats' = NoStats
    /\ fileOpen' = FALSE

\* rootCmd.Run up to the call of processFile
RunWith(configs) ==
    /\ pc = "run"
    /\ UNCHANGED <<calc, generatorVars>>
    /\ \E c \in configs :
        /\ config' = c
        /\ IF validateConfig(c) # ""
           THEN Fail(validateConfig(c))
           ELSE /\ pc' = "processFile"
                /\ UNCHANGED <<result, stats, fileOpen>>
    /\ UNCHANGED <<ext, reader, lines, fileSize, records>>
    /\ UNCHANGED scanVars
    /\ UNCHANGED columnVars

Run == RunWith(Configs)

\* the reader processFile makes for an extension.  &stats.TSVReader{} has a
\* nil embedded *CSVReader, so that reader has no Delimiter to read
NewReader(e) ==
    CASE e = ".csv" -> [format |-> "CSV", Delimiter |-> ","]
      [] e = ".tsv" -> [format |-> "TSV", Delimiter |-> "nil"]
      [] OTHER -> NoReader

\* processFile up to the call of reader.ReadTable
processFile ==
    /\ pc = "processFile"
    /\ UNCHANGED <<calc, generatorVars>>
    /\ \E path \in Exts, statErr \in BOOLEAN :
        IF statErr
        THEN Fail("cannot access file") /\ UNCHANGED <<ext, reader>>
        ELSE /\ ext' = ToLower(path)
             /\ IF NewReader(ToLower(path)) = NoReader
                THEN Fail("unsupported file type") /\ UNCHANGED reader
                ELSE /\ reader' = NewReader(ToLower(path))
                     /\ pc' = "ReadTable"
                     /\ UNCHANGED <<result, stats, fileOpen>>
    /\ UNCHANGED <<config, lines, fileSize, records>>
    /\ UNCHANGED scanVars
    /\ UNCHANGED columnVars

(***************************************************************************)
(* CSVReader.ReadTable.                                                    *)
(***************************************************************************)
\* os.Open and file.Stat
ReadTableOpen ==
    /\ pc = "ReadTable"
    /\ UNCHANGED <<calc, generatorVars>>
    /\ \E f \in Files, openErr \in BOOLEAN, statErr \in BOOLEAN :
        IF openErr
        THEN Fail("failed to open file") /\ UNCHANGED <<lines, fileSize>>
        ELSE IF statErr
        THEN Fail("failed to get file info") /\ UNCHANGED <<lines, fileSize>>
        ELSE /\ lines' = f
             /\ fileOpen' = TRUE
             /\ fileSize' = FileSize(f)
             /\ pc' = "header"
             /\ UNCHANGED <<result, stats>>
    /\ UNCHANGED <<config, ext, reader, records>>
    /\ UNCHANGED scanVars
    /\ UNCHANGED columnVars

\* ReadHeader taking the end of the file for a table without columns
ReadHeader_EofSucceeds ==
    /\ pc = "header"
    /\ UNCHANGED <<calc, generatorVars>>
    /\ IF reader.Delimiter = "nil"
       THEN Panic("panic: nil pointer dereference")
       ELSE IF lines = <<>>
       THEN /\ stats' = NewStats(<<>>)
            /\ pc' = "done"
            /\ result' = "ok"
            /\ fileOpen' = FALSE
       ELSE LET h == CsvRead(lines[1], reader.Delimiter, 0)
            IN  IF h.err # ""
                THEN Fail("failed to read header")
                ELSE /\ stats' = NewStats(h.record)
                     /\ pc' = "scan"
                     /\ UNCHANGED <<result, fileOpen>>
    /\ UNCHANGED <<config, ext, reader, lines, fileSize, records>>
    /\ UNCHANGED scanVars
    /\ UNCHANGED columnVars

\* the header: csvReader.Comma = r.Delimiter, csvReader.Read(), the new
\* TableStats
ReadHeader ==
    /\ pc = "header"
    /\ UNCHANGED <<calc, generatorVars>>
    /\ IF reader.Delimiter = "nil"
       THEN Panic("panic: nil pointer dereference")
       ELSE IF lines = <<>>
       THEN Fail("failed to read header: EOF")
       ELSE LET h == CsvRead(lines[1], reader.Delimiter, 0)
            IN  IF h.err # ""
                THEN Fail("failed to read header")
                ELSE /\ stats' = NewStats(h.record)
                     /\ pc' = "scan"
                     /\ UNCHANGED <<result, fileOpen>>
    /\ UNCHANGED <<config, ext, reader, lines, fileSize, records>>
    /\ UNCHANGED scanVars
    /\ UNCHANGED columnVars

\* the sampling strategy: a file is read entirely up to MaxFileSize
UseFullScan(size, c) == size <= c.MaxFileSize

\* the small file: csvReader.ReadAll()
FullScan ==
    /\ pc = "scan"
    /\ UNCHANGED <<calc, generatorVars>>
    /\ UseFullScan(fileSize, config)
    /\ LET all == ReadAll(lines, 2, reader.Delimiter, stats.ColumnCount, <<>>)
       IN  IF all.err # ""
           THEN Fail("failed to read CSV") /\ UNCHANGED records
           ELSE /\ records' = all.records
                /\ stats' = [stats EXCEPT !.RowCount = Len(all.records),
                                          !.EstimatedRows = Len(all.records)]
                /\ pc' = "loaded"
                /\ UNCHANGED <<result, fileOpen>>
    /\ UNCHANGED <<config, ext, reader, lines, fileSize>>
    /\ UNCHANGED scanVars
    /\ UNCHANGED columnVars

(***************************************************************************)
(* CSVReader.sampleRecords and CSVReader.estimateRowCount.                 *)
(***************************************************************************)
recordsPerPosition(c) == Max(1, c.SampleSize \div c.RandomPositions)

\* SampleLimit taking the other count of the configuration
SampleLimit_Positions(c) == c.RandomPositions

\* the number of records at which the loop stops and to which the sample
\* is cut
SampleLimit(c) == c.SampleSize

\* the large file: the call of sampleRecords, up to its loop
BeginSampling ==
    /\ pc = "scan"
    /\ UNCHANGED <<calc, generatorVars>>
    /\ ~UseFullScan(fileSize, config)
    /\ allRecords' = <<>>
    /\ readerBytes' = 0
    /\ i' = 0
    /\ pc' = "sample"
    /\ lastIo' = ""
    /\ UNCHANGED <<config, ext, reader, lines, fileOpen, fileSize, stats, records, result>>
    /\ UNCHANGED columnVars

\* the loop's exit test without the break on a full sample
AfterPosition_NoBreak(broke) ==
    IF i + 1 >= config.RandomPositions
    THEN pc' = "trim" /\ i' = i
    ELSE pc' = "sample" /\ i' = i + 1

\* the loop's exit test after the iteration i: a break, or i++ and i < n
AfterPosition(broke) ==
    IF broke \/ i + 1 >= config.RandomPositions
    THEN pc' = "trim" /\ i' = i
    ELSE pc' = "sample" /\ i' = i + 1

\* what the I/O at a sampling position can do
IoOutcomes == {"ok", "seek fails", "read fails", "position query fails"}

\* Handling with the read error returned like the others
Handling_ReturnAll(io) == IF io = "ok" THEN "append" ELSE "return err"

\* what the loop of sampleRecords does on each of them: a failed file.Seek
\* returns the error, a failed readFromPosition goes on with the next
\* position
Handling(io) ==
    CASE io = "seek fails" -> "return err"
      [] io = "read fails" -> "continue"
      [] io = "position query fails" -> "return err"
      [] OTHER -> "append"

\* one iteration of the loop of sampleRecords
SamplePosition ==
    /\ pc = "sample"
    /\ UNCHANGED <<calc, generatorVars>>
    /\ i < config.RandomPositions
    /\ LET minPos == fileSize \div 100
       IN  \E randomPos \in minPos..(fileSize - 1), io \in IoOutcomes :
            /\ lastIo' = io
            /\ CASE Handling(io) = "return err" ->
                    /\ Fail("failed to sample records")
                    /\ UNCHANGED <<readerBytes, i, allRecords>>
              [] Handling(io) = "continue" ->
                    /\ AfterPosition(FALSE)
                    /\ UNCHANGED <<readerBytes, allRecords, result, stats, fileOpen>>
              [] OTHER ->
                    LET got == readFromPosition(lines, randomPos, recordsPerPosition(config),
                                                reader.Delimiter)
                        all == allRecords \o got.records
                    IN  /\ readerBytes' = readerBytes + (got.fpos - randomPos)
                        /\ allRecords' = all
                        /\ AfterPosition(Len(all) >= SampleLimit(config))
                        /\ UNCHANGED <<result, stats, fileOpen>>
    /\ UNCHANGED <<config, ext, reader, lines, fileSize, records>>
    /\ UNCHANGED columnVars

\* estimateRowCount (bytes >= 0, c.SampleSize >= 0); Go's integer division
\* by zero is a run-time panic, at either of the two divisions
estimateRowCount(size, bytes, c) ==
    IF c.SampleSize = 0 THEN [panic |-> TRUE, rows |-> 0]
    ELSE LET avgBytesPerRecord == bytes \div c.SampleSize
         IN  IF avgBytesPerRecord = 0
             THEN [panic |-> TRUE, rows |-> 0]
             ELSE [panic |-> FALSE, rows |-> size \div avgBytesPerRecord]

\* the end of sampleRecords (the cut to the sample size) and what ReadTable
\* does with its result
SampleReturn ==
    /\ pc = "trim"
    /\ UNCHANGED <<calc, generatorVars>>
    /\ LET cut == IF Len(allRecords) > SampleLimit(config)
                  THEN SubSeq(allRecords, 1, SampleLimit(config))
                  ELSE allRecords
           est == estimateRowCount(fileSize, readerBytes, config)
       IN  IF est.panic
           THEN Panic("panic: integer divide by zero") /\ UNCHANGED <<records, scanVars>>
           ELSE /\ records' = cut
                /\ stats' = [stats EXCEPT !.RowCount = Len(cut), !.EstimatedRows = est.rows]
                /\ pc' = "loaded"
                \* neither the locals of sampleRecords nor readerBytes are read again
                /\ allRecords' = <<>>
                /\ readerBytes' = 0
                /\ i' = 0
                /\ lastIo' = ""
                /\ UNCHANGED <<result, fileOpen>>
    /\ UNCHANGED <<config, ext, reader, lines, fileSize>>
    /\ UNCHANGED columnVars

(***************************************************************************)
(* CSVReader.analyzeColumn.                                                *)
(***************************************************************************)
\* the decimal digits of n >= 0
RECURSIVE Digits(_)
Digits(n) == IF n < 10 THEN <<DigitChar(n)>> ELSE Append(Digits(n \div 10), DigitChar(n % 10))

RECURSIVE Zeros(_)
Zeros(n) == IF n <= 0 THEN <<>> ELSE <<"0">> \o Zeros(n - 1)

\* fmt.Sprintf("%020.6f", val): the value rounded to six fraction digits,
\* and zeros between the sign and the digits up to a width of 20
Sprintf020_6f(val) ==
    LET mag == IF val < 0 THEN 0 - val ELSE val
        sign == IF val < 0 THEN <<"-">> ELSE <<>>
        millionths == (mag \div One) * Micro + RoundInt((mag % One) * Micro, One)
        ip == Digits(millionths \div Micro)
        fd == Digits(millionths % Micro)
        text == ip \o <<".">> \o Zeros(6 - Len(fd)) \o fd
    IN  sign \o Zeros(20 - Len(sign) - Len(text)) \o text

\* toStringComparable: a string as it is, a float64 formatted; anything
\* else is a panic
toStringComparable(v) ==
    CASE v.t = "string" -> [panic |-> FALSE, s |-> v.s]
      [] v.t = "float64" -> [panic |-> FALSE, s |-> Sprintf020_6f(v.f)]
      [] OTHER -> [panic |-> TRUE, s |-> <<>>]

(***************************************************************************)
(* calculateAggregates and calculatePercentile.  (StdDev, the square root  *)
(* of Variance, is not part of the model.)                                 *)
(***************************************************************************)
\* x put into the ascending sequence s
RECURSIVE SortInsert(_, _)
SortInsert(x, s) ==
    IF s = <<>> THEN <<x>>
    ELSE IF x <= Head(s) THEN <<x>> \o s
    ELSE <<Head(s)>> \o SortInsert(x, Tail(s))

\* sort.Float64s: ascending order
RECURSIVE SortFloat64s(_)
SortFloat64s(s) == IF s = <<>> THEN <<>> ELSE SortInsert(Head(s), SortFloat64s(Tail(s)))

\* make, copy and sort.Float64s: the caller's slice, and the sorted copy
SortedCopy(values) == [values |-> values, sortedValues |-> SortFloat64s(values)]

\* the index of calculatePercentile: float64(percentile) / 100.0 * float64(n - 1)
PercentileIndex(n, percentile) ==
    FMul(FDiv(FromInt(percentile), FromInt(100)), FromInt(n - 1))

\* calculatePercentile taking the element at the floor of the index
\* without interpolating
calculatePercentile_Lower(sortedValues, percentile) ==
    IF Len(sortedValues) = 0 THEN 0
    ELSE sortedValues[Floor(PercentileIndex(Len(sortedValues), percentile)) + 1]

\* calculatePercentile(sortedValues, percentile)
calculatePercentile(sortedValues, percentile) ==
    IF Len(sortedValues) = 0 THEN 0
    ELSE LET index == PercentileIndex(Len(sortedValues), percentile)
             lower == Floor(index)
             upper == Ceil(index)
             weight == FSub(index, FromInt(lower))
         IN  IF index = FromInt(ToInt(index)) THEN sortedValues[ToInt(index) + 1]
             ELSE FAdd(FMul(sortedValues[lower + 1], FSub(One, weight)),
                       FMul(sortedValues[upper + 1], weight))

\* sum += v over the values
RECURSIVE SumLoop(_, _)
SumLoop(values, sum) ==
    IF values = <<>> THEN sum ELSE SumLoop(Tail(values), FAdd(sum, Head(values)))

\* variance += (v - mean) * (v - mean) over the values
RECURSIVE VarianceLoop(_, _, _)
VarianceLoop(values, mean, variance) ==
    IF values = <<>> THEN variance
    ELSE VarianceLoop(Tail(values), mean,
                      FAdd(variance, FMul(FSub(Head(values), mean), FSub(Head(values), mean))))

percentilePoints == {25, 50, 75, 90, 95, 99}

\* Divisor with the divisor of the sample variance
Divisor_Sample(count) == FromInt(Max(1, count - 1))

\* the divisor of the variance: float64(count)
Divisor(count) == FromInt(count)

calculateAggregates(values) ==
    IF Len(values) = 0 THEN NoAggregates
    ELSE LET slices == SortedCopy(values)
             count == Len(slices.values)
             sum == SumLoop(slices.values, 0)
             mean == FDiv(sum, FromInt(count))
             total == VarianceLoop(slices.values, mean, 0)
             percentiles == [p \in percentilePoints |->
                                calculatePercentile(slices.sortedValues, p)]
         IN  [Count |-> count,
              Sum |-> sum,
              Mean |-> mean,
              Median |-> percentiles[50],
              Variance |-> FDiv(total, Divisor(count)),
              Percentiles |-> percentiles]

\* the greatest common divisor of a >= 0 and b >= 0
RECURSIVE Gcd(_, _)
Gcd(a, b) == IF b = 0 THEN a ELSE Gcd(b, a % b)

\* float64(count) / float64(total) * 100 as a fraction in lowest terms
\* (total > 0)
Percentage(count, total) ==
    LET g == Gcd(count * 100, total)
    IN  [num |-> (count * 100) \div g, den |-> total \div g]

\* the locals of analyzeColumn
Locals ==
    [nullCount |-> nullCount, minVal |-> minVal, maxVal |-> maxVal, isNumeric |-> isNumeric,
     isFloat |-> isFloat, numericValues |-> numericValues, panic |-> FALSE]

\* v.(T): the type assertion panics on a value of another type
AssertionFails(v, T) == v.t # T

\* IsNull accepting the spelling Null as well
IsNull_AnyCase(value) ==
    value \in {<<>>, <<"N", "U", "L", "L">>, <<"n", "u", "l", "l">>, <<"N", "u", "l", "l">>}

\* the null test on a trimmed value
IsNull(value) ==
    value = <<>> \/ value = <<"N", "U", "L", "L">> \/ value = <<"n", "u", "l", "l">>

\* NumericStep with isFloat taken from the last value alone
NumericStep_LastDot(st, value, floatVal) ==
    LET newMin == IF st.minVal = Nil \/ floatVal < st.minVal.f
                  THEN Float(floatVal) ELSE st.minVal
        newMax == IF st.maxVal = Nil \/ floatVal > st.maxVal.f
                  THEN Float(floatVal) ELSE st.maxVal
    IN  [st EXCEPT !.numericValues = Append(@, floatVal),
                   !.isFloat = Contains(value, "."),
                   !.minVal = newMin,
                   !.maxVal = newMax]

\* a value that parsed, the column being numeric so far
NumericStep(st, value, floatVal) ==
    LET minPanic == st.minVal # Nil /\ AssertionFails(st.minVal, "float64")
        newMin == IF st.minVal = Nil \/ floatVal < st.minVal.f
                  THEN Float(floatVal) ELSE st.minVal
        maxPanic == st.maxVal # Nil /\ AssertionFails(st.maxVal, "float64")
        newMax == IF st.maxVal = Nil \/ floatVal > st.maxVal.f
                  THEN Float(floatVal) ELSE st.maxVal
    IN  IF minPanic \/ maxPanic THEN [st EXCEPT !.panic = TRUE]
        ELSE [st EXCEPT !.numericValues = Append(@, floatVal),
                        !.isFloat = @ \/ Contains(value, "."),
                        !.minVal = newMin,
                        !.maxVal = newMax]

\* the first value that does not parse: the column switches to strings
FlipStep(st, value) ==
    LET lo == toStringComparable(st.minVal)
        hi == toStringComparable(st.maxVal)
        minPanic == st.minVal # Nil /\ lo.panic
        maxPanic == st.maxVal # Nil /\ hi.panic
        newMin == IF st.minVal = Nil \/ StrLess(value, lo.s) THEN Str(value) ELSE st.minVal
        newMax == IF st.maxVal = Nil \/ StrGreater(value, hi.s) THEN Str(value) ELSE st.maxVal
    IN  IF minPanic \/ maxPanic THEN [st EXCEPT !.panic = TRUE]
        ELSE [st EXCEPT !.isNumeric = FALSE,
                        !.isFloat = FALSE,
                        !.numericValues = <<>>,
                        !.minVal = newMin,
                        !.maxVal = newMax]

\* StringStep that takes the column back to numeric on a value that parses
StringStep_Reverts(st, value) ==
    LET newMin == IF st.minVal.t # "string" \/ StrLess(value, st.minVal.s)
                  THEN Str(value) ELSE st.minVal
        newMax == IF st.maxVal.t # "string" \/ StrGreater(value, st.maxVal.s)
                  THEN Str(value) ELSE st.maxVal
    IN  IF ParseFloat(value).ok
        THEN [st EXCEPT !.isNumeric = TRUE,
                        !.numericValues = <<ParseFloat(value).val>>,
                        !.minVal = Float(ParseFloat(value).val),
                        !.maxVal = Float(ParseFloat(value).val)]
        ELSE [st EXCEPT !.minVal = newMin, !.maxVal = newMax]

\* StringStep that never lowers the minimum
StringStep_MaxOnly(st, value) ==
    LET newMax == IF st.maxVal = Nil \/ StrGreater(value, st.maxVal.s)
                  THEN Str(value) ELSE st.maxVal
    IN  [st EXCEPT !.maxVal = newMax]

\* a value of a column that has switched to strings
StringStep(st, value) ==
    LET minPanic == st.minVal # Nil /\ AssertionFails(st.minVal, "string")
        newMin == IF st.minVal = Nil \/ StrLess(value, st.minVal.s)
                  THEN Str(value) ELSE st.minVal
        maxPanic == st.maxVal # Nil /\ AssertionFails(st.maxVal, "string")
        newMax == IF st.maxVal = Nil \/ StrGreater(value, st.maxVal.s)
                  THEN Str(value) ELSE st.maxVal
    IN  IF minPanic \/ maxPanic THEN [st EXCEPT !.panic = TRUE]
        ELSE [st EXCEPT !.minVal = newMin, !.maxVal = newMax]

\* the body of the loop of analyzeColumn for one record, on the locals st
AnalyzeRecordStep(st, record, col) ==
    IF col >= Len(record) THEN [st EXCEPT !.nullCount = @ + 1]
    ELSE LET value == TrimSpace(record[col + 1])
         IN  IF IsNull(value) THEN [st EXCEPT !.nullCount = @ + 1]
             ELSE IF st.isNumeric
             THEN (IF ParseFloat(value).ok
                   THEN NumericStep(st, value, ParseFloat(value).val)
                   ELSE FlipStep(st, value))
             ELSE StringStep(st, value)

\* ResetLocals with the bounds declared once for all the columns
ResetLocals_KeepBounds ==
    /\ nullCount' = 0
    /\ UNCHANGED <<minVal, maxVal>>
    /\ isNumeric' = TRUE
    /\ isFloat' = FALSE
    /\ numericValues' = <<>>
    /\ recIdx' = 0

\* the declarations at the head of analyzeColumn
ResetLocals ==
    /\ nullCount' = 0
    /\ minVal' = Nil
    /\ maxVal' = Nil
    /\ isNumeric' = TRUE
    /\ isFloat' = FALSE
    /\ numericValues' = <<>>
    /\ recIdx' = 0

\* BeginAnalysis with every record in the preview
BeginAnalysis_NoCut ==
    /\ pc = "loaded"
    /\ UNCHANGED <<calc, generatorVars>>
    /\ IF Len(records) = 0
       THEN /\ pc' = "done"
            /\ result' = "ok"
            /\ fileOpen' = FALSE
            /\ UNCHANGED stats
            /\ UNCHANGED columnVars
       ELSE /\ stats' = [stats EXCEPT !.SampleData = records]
            /\ pc' = "analyze"
            /\ colIdx' = 0
            /\ ResetLocals
            /\ UNCHANGED <<result, fileOpen>>
    /\ UNCHANGED <<config, ext, reader, lines, fileSize, records>>
    /\ UNCHANGED scanVars

\* ReadTable once the records are there: the empty result, or the preview
\* and the call of analyzeColumn for the first column
BeginAnalysis ==
    /\ pc = "loaded"
    /\ UNCHANGED <<calc, generatorVars>>
    /\ IF Len(records) = 0
       THEN /\ pc' = "done"
            /\ result' = "ok"
            /\ fileOpen' = FALSE
            /\ UNCHANGED stats
            /\ UNCHANGED columnVars
       ELSE /\ stats' = [stats EXCEPT !.SampleData = SubSeq(records, 1, Min(5, Len(records)))]
            /\ pc' = "analyze"
            /\ colIdx' = 0
            /\ ResetLocals
            /\ UNCHANGED <<result, fileOpen>>
    /\ UNCHANGED <<config, ext, reader, lines, fileSize, records>>
    /\ UNCHANGED scanVars

\* one iteration of the loop of analyzeColumn
AnalyzeRecord ==
    /\ pc = "analyze"
    /\ UNCHANGED <<calc, generatorVars>>
    /\ recIdx < Len(records)
    /\ LET st == AnalyzeRecordStep(Locals, records[recIdx + 1], colIdx)
       IN  IF st.panic
           THEN /\ Panic("panic: interface conversion")
                /\ UNCHANGED columnVars
           ELSE /\ nullCount' = st.nullCount
                /\ minVal' = st.minVal
                /\ maxVal' = st.maxVal
                /\ isNumeric' = st.isNumeric
                /\ isFloat' = st.isFloat
                /\ numericValues' = st.numericValues
                /\ recIdx' = recIdx + 1
                /\ UNCHANGED <<pc, colIdx, result, stats, fileOpen>>
    /\ UNCHANGED <<config, ext, reader, lines, fileSize, records>>
    /\ UNCHANGED scanVars

\* the column type analyzeColumn sets
ColumnType(numeric, float) ==
    IF numeric THEN (IF float THEN "float64" ELSE "int64") ELSE "string"

\* the end of analyzeColumn for the column colIdx, and ReadTable's loop over
\* the columns: the next column, or the return of the TableStats
AnalyzeFinish ==
    /\ pc = "analyze"
    /\ UNCHANGED <<calc, generatorVars>>
    /\ recIdx = Len(records)
    /\ LET colName == stats.ColumnNames[colIdx + 1]
           filled ==
               [stats EXCEPT
                   !.ColumnTypes = Put(@, colName, ColumnType(isNumeric, isFloat)),
                   !.Aggregates = IF isNumeric /\ Len(numericValues) > 0
                                  THEN Put(@, colName, calculateAggregates(numericValues))
                                  ELSE @,
                   !.NullCounts = Put(@, colName, nullCount),
                   !.NullPercentage = Put(@, colName, Percentage(nullCount, Len(records))),
                   !.MinValues = Put(@, colName, minVal),
                   !.MaxValues = Put(@, colName, maxVal)]
       IN  /\ stats' = filled
           /\ colIdx' = colIdx + 1
           /\ ResetLocals
           /\ IF colIdx + 1 < stats.ColumnCount
              THEN UNCHANGED <<pc, result, fileOpen>>
              ELSE /\ pc' = "done"
                   /\ result' = "ok"
                   /\ fileOpen' = FALSE
    /\ UNCHANGED <<config, ext, reader, lines, fileSize, records>>
    /\ UNCHANGED scanVars

Next ==
    \/ Run
    \/ processFile
    \/ ReadTableOpen
    \/ ReadHeader
    \/ FullScan
    \/ BeginSampling
    \/ SamplePosition
    \/ SampleReturn
    \/ BeginAnalysis
    \/ AnalyzeRecord
    \/ AnalyzeFinish

Spec == Init /\ [][Next]_vars

(***************************************************************************)
(* The column analyzer on its own: ReadTable at its loop over the columns, *)
(* with records drawn from RecordValues.                                   *)
(***************************************************************************)
\* records of two fields, and one of a single field:
\*   7,ab    ab,7    2.5,NULL    " null ",Null    ""," 10 "    -3    +x,1.
RecordValues ==
    {<< <<"7">>, <<"a", "b">> >>,
     << <<"a", "b">>, <<"7">> >>,
     << <<"2", ".", "5">>, <<"N", "U", "L", "L">> >>,
     << <<" ", "n", "u", "l", "l", " ">>, <<"N", "u", "l", "l">> >>,
     << <<>>, <<" ", "1", "0", " ">> >>,
     << <<"-", "3">> >>,
     << <<"+", "x">>, <<"1", ".">> >>}

\* the headers a,b and a,a
HeaderValues == {<< <<"a">>, <<"b">> >>, << <<"a">>, <<"a">> >>}

\* the defaults of the command's flags
DefaultConfig ==
    [SampleSize |-> 1000, RandomPositions |-> 5, Confidence |-> 95,
     MaxFileSize |-> DefaultMaxFileSize]

InitColumn ==
    /\ pc = "analyze"
    /\ config = DefaultConfig
    /\ ext = ".csv"
    /\ reader = NewReader(".csv")
    /\ lines = <<>>
    /\ fileOpen = TRUE
    /\ fileSize = 0
    /\ records \in SeqsUpTo(RecordValues, MaxRecords) \ {<<>>}
    /\ \E header \in HeaderValues :
        stats = [NewStats(header) EXCEPT
                    !.RowCount = Len(records),
                    !.EstimatedRows = Len(records),
                    !.SampleData = SubSeq(records, 1, Min(5, Len(records)))]
    /\ readerBytes = 0
    /\ i = 0
    /\ allRecords = <<>>
    /\ lastIo = ""
    /\ colIdx = 0
    /\ recIdx = 0
    /\ nullCount = 0
    /\ minVal = Nil
    /\ maxVal = Nil
    /\ isNumeric = TRUE
    /\ isFloat = FALSE
    /\ numericValues = <<>>
    /\ result = ""
    /\ calc = NoCalc
    /\ NoGenerator

NextColumn ==
    \/ AnalyzeRecord
    \/ AnalyzeFinish

SpecColumn == InitColumn /\ [][NextColumn]_vars

(***************************************************************************)
(* The end of ReadTable on its own: the preview and the column analysis of *)
(* up to MaxPreviewRecords records, as a scan has returned them.           *)
(***************************************************************************)
\* the records 7,ab and 2.5,NULL
PreviewRecords ==
    {<< <<"7">>, <<"a", "b">> >>,
     << <<"2", ".", "5">>, <<"N", "U", "L", "L">> >>}

InitPreview ==
    /\ pc = "loaded"
    /\ config = DefaultConfig
    /\ ext = ".csv"
    /\ reader = NewReader(".csv")
    /\ lines = <<>>
    /\ fileOpen = TRUE
    /\ fileSize = 0
    /\ records \in SeqsUpTo(PreviewRecords, MaxPreviewRecords)
    /\ \E header \in HeaderValues :
        stats = [NewStats(header) EXCEPT
                    !.RowCount = Len(records),
                    !.EstimatedRows = Len(records)]
    /\ readerBytes = 0
    /\ i = 0
    /\ allRecords = <<>>
    /\ lastIo = ""
    /\ colIdx = 0
    /\ recIdx = 0
    /\ nullCount = 0
    /\ minVal = Nil
    /\ maxVal = Nil
    /\ isNumeric = TRUE
    /\ isFloat = FALSE
    /\ numericValues = <<>>
    /\ result = ""
    /\ calc = NoCalc
    /\ NoGenerator

NextPreview ==
    \/ BeginAnalysis
    \/ AnalyzeRecord
    \/ AnalyzeFinish

SpecPreview == InitPreview /\ [][NextPreview]_vars

(***************************************************************************)
(* sampleRecords on its own: ReadTable has read the header a,b of a file   *)
(* larger than MaxFileSize with a configuration validateConfig accepts.    *)
(***************************************************************************)
InitSampling ==
    /\ pc = "scan"
    /\ config \in {c \in Configs : validateConfig(c) = "" /\ c.MaxFileSize < DefaultMaxFileSize}
    /\ ext = ".csv"
    /\ reader = NewReader(".csv")
    /\ lines \in {<<<<"a", ",", "b">>>> \o d : d \in SeqsUpTo(DataLines, MaxRows)}
    /\ fileOpen = TRUE
    /\ fileSize = FileSize(lines)
    /\ stats = NewStats(CsvRead(lines[1], reader.Delimiter, 0).record)
    /\ records = <<>>
    /\ readerBytes = 0
    /\ i = 0
    /\ allRecords = <<>>
    /\ lastIo = ""
    /\ colIdx = 0
    /\ recIdx = 0
    /\ nullCount = 0
    /\ minVal = Nil
    /\ maxVal = Nil
    /\ isNumeric = TRUE
    /\ isFloat = FALSE
    /\ numericValues = <<>>
    /\ result = ""
    /\ calc = NoCalc
    /\ NoGenerator

NextSampling ==
    \/ BeginSampling
    \/ SamplePosition
    \/ SampleReturn

SpecSampling == InitSampling /\ [][NextSampling]_vars

(***************************************************************************)
(* estimateRowCount on its own, called as its test calls it: with a        *)
(* positive file size, a positive byte count and any SamplingConfig, the   *)
(* zero SampleSize of a config that sets only RandomPositions included.    *)
(***************************************************************************)
InitEstimate ==
    /\ pc = "estimate"
    /\ \E sampleSize \in 0..MaxSampleSize :
        config = [SampleSize |-> sampleSize, RandomPositions |-> 5, Confidence |-> 0,
                  MaxFileSize |-> 0]
    /\ ext = ""
    /\ reader = NewReader(".csv")
    /\ lines = <<>>
    /\ fileOpen = FALSE
    /\ fileSize \in 1..MaxEstimateBytes
    /\ stats = NoStats
    /\ records = <<>>
    /\ readerBytes \in 1..MaxEstimateBytes
    /\ i = 0
    /\ allRecords = <<>>
    /\ lastIo = ""
    /\ colIdx = 0
    /\ recIdx = 0
    /\ nullCount = 0
    /\ minVal = Nil
    /\ maxVal = Nil
    /\ isNumeric = TRUE
    /\ isFloat = FALSE
    /\ numericValues = <<>>
    /\ result = ""
    /\ calc = NoCalc
    /\ NoGenerator

\* the call r.estimateRowCount(fileSize, readerBytes, config)
EstimateRowCount ==
    /\ pc = "estimate"
    /\ LET est == estimateRowCount(fileSize, readerBytes, config)
       IN  IF est.panic
           THEN /\ result' = "panic: integer divide by zero"
                /\ calc' = [calc EXCEPT !.step = "panicked"]
           ELSE /\ result' = "ok"
                /\ calc' = [calc EXCEPT !.step = "estimated", !.value = est.rows]
    /\ pc' = "done"
    /\ UNCHANGED <<config, ext, reader, lines, fileOpen, fileSize, stats, records>>
    /\ UNCHANGED scanVars
    /\ UNCHANGED columnVars
    /\ UNCHANGED generatorVars

NextEstimate == EstimateRowCount

SpecEstimate == InitEstimate /\ [][NextEstimate]_vars

(***************************************************************************)
(* The command up to the opening of the file, over every configuration the *)
(* flags can give.                                                         *)
(***************************************************************************)
RunFlags == RunWith(FlagConfigs)

NextConfig ==
    \/ RunFlags
    \/ processFile
    \/ ReadTableOpen

SpecConfig == Init /\ [][NextConfig]_vars

(***************************************************************************)
(* The aggregate calculator on its own: calculateAggregates on a slice of  *)
(* up to MaxValues values, then calculatePercentile on the sorted copy.    *)
(***************************************************************************)
\* the numbers 1.3, 0.1, 0.7, 2.5 and -3
NumberTexts ==
    {<<"1", ".", "3">>, <<"0", ".", "1">>, <<"0", ".", "7">>, <<"2", ".", "5">>, <<"-", "3">>}

FloatValues == {ParseFloat(text).val : text \in NumberTexts}

\* the ranks calculatePercentile is asked for
Ranks == {0, 1, 10, 33, 67, 100} \cup percentilePoints

InitAggregates ==
    /\ pc = "aggregates"
    /\ config = DefaultConfig
    /\ ext = ""
    /\ reader = NoReader
    /\ lines = <<>>
    /\ fileOpen = FALSE
    /\ fileSize = 0
    /\ stats = NoStats
    /\ records = <<>>
    /\ readerBytes = 0
    /\ i = 0
    /\ allRecords = <<>>
    /\ lastIo = ""
    /\ colIdx = 0
    /\ recIdx = 0
    /\ nullCount = 0
    /\ minVal = Nil
    /\ maxVal = Nil
    /\ isNumeric = TRUE
    /\ isFloat = FALSE
    /\ numericValues = <<>>
    /\ result = ""
    /\ \E values \in SeqsUpTo(FloatValues, MaxValues) \ {<<>>}, percentile \in Ranks :
        calc = [NoCalc EXCEPT !.step = "call", !.input = values, !.values = values,
                              !.percentile = percentile]
    /\ NoGenerator

\* the call calculateAggregates(values)
CalculateAggregates ==
    /\ calc.step = "call"
    /\ calc' = [calc EXCEPT !.step = "aggregated",
                            !.values = SortedCopy(calc.values).values,
                            !.sortedValues = SortedCopy(calc.values).sortedValues,
                            !.aggregates = calculateAggregates(calc.values)]
    /\ UNCHANGED tableVars
    /\ UNCHANGED generatorVars

\* the call calculatePercentile(sortedValues, percentile)
CalculatePercentile ==
    /\ calc.step = "aggregated"
    /\ calc' = [calc EXCEPT !.step = "returned",
                            !.value = calculatePercentile(calc.sortedValues, calc.percentile)]
    /\ UNCHANGED tableVars
    /\ UNCHANGED generatorVars

NextAggregates ==
    \/ CalculateAggregates
    \/ CalculatePercentile

SpecAggregates == InitAggregates /\ [][NextAggregates]_vars

(***************************************************************************)
(* The data generator: generateCSV and its recordGenerator workers.        *)
(*                                                                         *)
(* recordChan is one buffered channel that carries the requests of the     *)
(* writer and the answers of the workers alike.  A send hands its value to *)
(* the receiver that has waited longest, and puts it into the buffer when  *)
(* nobody waits; a receive takes the head of the buffer, and waits when    *)
(* the buffer is empty.  done is unbuffered: a send on it completes with a *)
(* worker that stands in its select.                                       *)
(***************************************************************************)
\* a send of b on recordChan by goroutine g, which goes on at next
Send(g, b, next) ==
    IF recordChan.recvq # <<>>
    THEN LET r == Head(recordChan.recvq)
         IN  /\ goroutines' = [goroutines EXCEPT ![g] = next,
                                                 ![r] = IF r = Writer THEN "write" ELSE "fill"]
             /\ batch' = [batch EXCEPT ![g] = NoBatch, ![r] = b]
             /\ recordChan' = [recordChan EXCEPT !.recvq = Tail(@)]
    ELSE /\ Len(recordChan.buf) < RecordChanCap
         /\ goroutines' = [goroutines EXCEPT ![g] = next]
         /\ batch' = [batch EXCEPT ![g] = NoBatch]
         /\ recordChan' = [recordChan EXCEPT !.buf = Append(@, b)]

\* a receive from recordChan by goroutine g, which goes on at next with the
\* value; with an empty buffer g joins the receivers that wait
Receive(g, next) ==
    IF recordChan.buf # <<>>
    THEN /\ goroutines' = [goroutines EXCEPT ![g] = next]
         /\ batch' = [batch EXCEPT ![g] = Head(recordChan.buf)]
         /\ recordChan' = [recordChan EXCEPT !.buf = Tail(@)]
    ELSE /\ goroutines' = [goroutines EXCEPT ![g] = "parked"]
         /\ recordChan' = [recordChan EXCEPT !.recvq = Append(@, g)]
         /\ UNCHANGED batch

\* generateCSV returns e: the deferred writer.Flush() and file.Close() run
Return(e) ==
    /\ goroutines' = [goroutines EXCEPT ![Writer] = "returned"]
    /\ err' = e

\* the rows a batch becomes in the file: a record a worker generated, or
\* the zero Record
Rows(b, n) == [k \in 1..n |-> IF b.filled THEN "record" ELSE "zero"]

\* the workers that stand in the select of recordGenerator
Selecting == {w \in WorkerIds : goroutines[w] \in {"select", "parked"}}

\* the recordGenerator goroutines started so far
Started == {w \in WorkerIds : goroutines[w] # "none"}

InitGenerator ==
    /\ pc = "generate"
    /\ config = NoConfig
    /\ ext = ""
    /\ reader = NoReader
    /\ lines = <<>>
    /\ fileOpen = FALSE
    /\ fileSize = 0
    /\ stats = NoStats
    /\ records = <<>>
    /\ readerBytes = 0
    /\ i = 0
    /\ allRecords = <<>>
    /\ lastIo = ""
    /\ colIdx = 0
    /\ recIdx = 0
    /\ nullCount = 0
    /\ minVal = Nil
    /\ maxVal = Nil
    /\ isNumeric = TRUE
    /\ isFloat = FALSE
    /\ numericValues = <<>>
    /\ result = ""
    /\ calc = NoCalc
    /\ \E rows \in 0..MaxGeneratorRows, workers \in 0..MaxWorkers :
        generatorConfig = [Rows |-> rows, Workers |-> workers]
    /\ goroutines = [g \in Goroutines |-> IF g = Writer THEN "create" ELSE "none"]
    /\ batch = [g \in Goroutines |-> NoBatch]
    /\ recordChan = [buf |-> <<>>, recvq |-> <<>>]
    /\ done = 0
    /\ recordsGenerated = 0
    /\ file = <<>>
    /\ err = ""

\* os.Create(config.Filename)
CreateFile ==
    /\ goroutines[Writer] = "create"
    /\ \E io \in {"ok", "err"} :
        IF io = "ok"
        THEN /\ goroutines' = [goroutines EXCEPT ![Writer] = "header"]
             /\ UNCHANGED err
        ELSE Return("creating file")
    /\ UNCHANGED <<generatorConfig, batch, recordChan, done, recordsGenerated, file>>
    /\ UNCHANGED <<tableVars, calc>>

\* writer.Write(header)
WriteHeader ==
    /\ goroutines[Writer] = "header"
    /\ \E io \in {"ok", "err"} :
        IF io = "ok"
        THEN /\ goroutines' = [goroutines EXCEPT ![Writer] = "go"]
             /\ file' = <<"header">>
             /\ UNCHANGED err
        ELSE /\ Return("writing header")
             /\ UNCHANGED file
    /\ UNCHANGED <<generatorConfig, batch, recordChan, done, recordsGenerated>>
    /\ UNCHANGED <<tableVars, calc>>

\* the loop that starts the workers: go recordGenerator(recordChan, done)
StartWorker ==
    /\ goroutines[Writer] = "go"
    /\ LET n == Cardinality(Started)
       IN  IF n < generatorConfig.Workers
           THEN goroutines' = [goroutines EXCEPT ![n + 1] = "select"]
           ELSE goroutines' = [goroutines EXCEPT ![Writer] = "loop"]
    /\ UNCHANGED <<generatorConfig, batch, recordChan, done, recordsGenerated, file, err>>
    /\ UNCHANGED <<tableVars, calc>>

\* for recordsGenerated < config.Rows
LoopTest ==
    /\ goroutines[Writer] = "loop"
    /\ goroutines' = [goroutines EXCEPT ![Writer] =
                        IF recordsGenerated < generatorConfig.Rows THEN "request" ELSE "stop"]
    /\ UNCHANGED <<generatorConfig, batch, recordChan, done, recordsGenerated, file, err>>
    /\ UNCHANGED <<tableVars, calc>>

\* recordChan <- make([]Record, currentBatchSize)
RequestBatch ==
    /\ goroutines[Writer] = "request"
    /\ LET remainingRows == generatorConfig.Rows - recordsGenerated
           currentBatchSize == IF remainingRows < batchSize THEN remainingRows ELSE batchSize
       IN  Send(Writer, [size |-> currentBatchSize, filled |-> FALSE], "get")
    /\ UNCHANGED <<generatorConfig, done, recordsGenerated, file, err>>
    /\ UNCHANGED <<tableVars, calc>>

\* batch := <-recordChan
GetBatch ==
    /\ goroutines[Writer] = "get"
    /\ Receive(Writer, "write")
    /\ UNCHANGED <<generatorConfig, done, recordsGenerated, file, err>>
    /\ UNCHANGED <<tableVars, calc>>

\* the rows of the batch go to the file, as far as the writes succeed;
\* recordsGenerated += len(batch)
WriteBatch ==
    /\ goroutines[Writer] = "write"
    /\ \E written \in 0..batch[Writer].size :
        /\ file' = file \o Rows(batch[Writer], written)
        /\ IF written = batch[Writer].size
           THEN /\ recordsGenerated' = recordsGenerated + batch[Writer].size
                /\ goroutines' = [goroutines EXCEPT ![Writer] = "loop"]
                /\ UNCHANGED err
           ELSE /\ Return("writing record")
                /\ UNCHANGED recordsGenerated
    /\ batch' = [batch EXCEPT ![Writer] = NoBatch]
    /\ UNCHANGED <<generatorConfig, recordChan, done>>
    /\ UNCHANGED <<tableVars, calc>>

\* done <- true, received by a worker in its select, which returns
StopWorker ==
    /\ goroutines[Writer] = "stop"
    /\ done < generatorConfig.Workers
    /\ \E w \in Selecting :
        /\ goroutines' = [goroutines EXCEPT ![w] = "exited"]
        /\ recordChan' = [recordChan EXCEPT !.recvq = SelectSeq(@, LAMBDA g : g # w)]
    /\ done' = done + 1
    /\ UNCHANGED <<generatorConfig, batch, recordsGenerated, file, err>>
    /\ UNCHANGED <<tableVars, calc>>

\* ReturnNil with a stop loop that is one signal short
ReturnNil_Early ==
    /\ goroutines[Writer] = "stop"
    /\ done >= generatorConfig.Workers - 1
    /\ Return("nil")
    /\ UNCHANGED <<generatorConfig, batch, recordChan, done, recordsGenerated, file>>
    /\ UNCHANGED <<tableVars, calc>>

\* return nil, after config.Workers values went over done
ReturnNil ==
    /\ goroutines[Writer] = "stop"
    /\ done >= generatorConfig.Workers
    /\ Return("nil")
    /\ UNCHANGED <<generatorConfig, batch, recordChan, done, recordsGenerated, file>>
    /\ UNCHANGED <<tableVars, calc>>

\* recordGenerator: the select, case batch := <-recordChan
Select(w) ==
    /\ goroutines[w] = "select"
    /\ Receive(w, "fill")
    /\ UNCHANGED <<generatorConfig, done, recordsGenerated, file, err>>
    /\ UNCHANGED <<tableVars, calc>>

\* recordGenerator: batch[i] = generateRecord(rng) for every i
FillBatch(w) ==
    /\ goroutines[w] = "fill"
    /\ goroutines' = [goroutines EXCEPT ![w] = "answer"]
    /\ batch' = [batch EXCEPT ![w].filled = TRUE]
    /\ UNCHANGED <<generatorConfig, recordChan, done, recordsGenerated, file, err>>
    /\ UNCHANGED <<tableVars, calc>>

\* recordGenerator: recordChan <- batch
AnswerBatch(w) ==
    /\ goroutines[w] = "answer"
    /\ Send(w, batch[w], "select")
    /\ UNCHANGED <<generatorConfig, done, recordsGenerated, file, err>>
    /\ UNCHANGED <<tableVars, calc>>

\* the steps of generateCSV
generateCSV ==
    \/ CreateFile
    \/ WriteHeader
    \/ StartWorker
    \/ LoopTest
    \/ RequestBatch
    \/ GetBatch
    \/ WriteBatch
    \/ StopWorker
    \/ ReturnNil

\* the steps of the worker w
recordGenerator(w) ==
    \/ Select(w)
    \/ FillBatch(w)
    \/ AnswerBatch(w)

NextGenerator ==
    \/ generateCSV
    \/ \E w \in WorkerIds : recordGenerator(w)

SpecGenerator == InitGenerator /\ [][NextGenerator]_vars

\* every goroutine that can take a step is scheduled in the end
FairGenerator ==
    /\ WF_vars(generateCSV)
    /\ \A w \in WorkerIds : WF_vars(recordGenerator(w))

SpecGeneratorFair == SpecGenerator /\ FairGenerator

(***************************************************************************)
(* What the properties speak of.                                           *)
(***************************************************************************)
\* ReadTable has read the header of the file
HeaderParses ==
    /\ reader.Delimiter # "nil"
    /\ lines # <<>>
    /\ ParseFields(lines[1], reader.Delimiter).err = ""

HeaderFieldCount == Len(ParseFields(lines[1], reader.Delimiter).fields)

\* the data line k is a record of as many fields as the header
RowParses(k) ==
    /\ ParseFields(lines[k], reader.Delimiter).err = ""
    /\ Len(ParseFields(lines[k], reader.Delimiter).fields) = HeaderFieldCount

AllRowsParse == \A k \in 2..Len(lines) : RowParses(k)

\* the data rows of the file, the header excluded
DataRows == Len(lines) - 1

\* the data rows that are well-formed records
GoodRows == Cardinality({k \in 2..Len(lines) : RowParses(k)})

SmallFile == HeaderParses /\ fileSize <= config.MaxFileSize

LargeFile == HeaderParses /\ fileSize > config.MaxFileSize

Returned == pc = "done" /\ result = "ok"

\* C1 as stated: for any file of at most MaxFileSize bytes whose header
\* parses, ReadTable returns RowCount = the number of data rows of the file
\* and EstimatedRows = RowCount.
C1_Original ==
    (SmallFile /\ pc = "done") =>
        /\ result = "ok"
        /\ stats.RowCount = DataRows
        /\ stats.EstimatedRows = stats.RowCount

\* C1, amended: for a file of at most MaxFileSize bytes whose header parses,
\* if every data line is a record of the header's field count then the
\* RowCount ReadTable sets, and returns, is the number of data rows and
\* EstimatedRows equals it, and ReadTable reports no read error; if some data
\* line is not, ReadTable returns the error "failed to read CSV" and no
\* TableStats.
C1_FullScanRowCount ==
    SmallFile =>
        IF AllRowsParse
        THEN /\ (pc \in {"loaded", "analyze"} \/ Returned) =>
                    /\ stats.RowCount = DataRows
                    /\ stats.EstimatedRows = stats.RowCount
                    /\ Len(records) = DataRows
             /\ pc = "done" => result \in {"ok", "panic: interface conversion"}
        ELSE /\ pc \in {"header", "scan", "done"}
             /\ pc = "done" => (result = "failed to read CSV" /\ stats = NoStats)

\* a full scan of two data rows has returned
C1_Witness ==
    SmallFile /\ AllRowsParse /\ Returned /\ DataRows = 2 /\ stats.RowCount = 2

\* C2 as stated: for a file larger than MaxFileSize, whenever the sample
\* holds fewer records than the file has data rows, ReadTable returns
\* EstimatedRows > RowCount.
C2_Original ==
    (LargeFile /\ Returned /\ stats.RowCount < GoodRows) =>
        stats.EstimatedRows > stats.RowCount

C3_Step ==
    pc = "sample" =>
        /\ lastIo' = "read fails" =>
            /\ allRecords' = allRecords
            /\ readerBytes' = readerBytes
            /\ result' = ""
            /\ fileOpen'
            /\ \/ pc' = "sample" /\ i' = i + 1 /\ i' < config.RandomPositions
               \/ pc' = "trim" /\ i + 1 = config.RandomPositions
        /\ lastIo' \in {"seek fails", "position query fails"} =>
            /\ pc' = "done"
            /\ result' = "failed to sample records"
            /\ stats' = NoStats

C4_Original ==
    /\ ext = ".csv" => reader.Delimiter = ","
    /\ ext = ".tsv" => reader.Delimiter = TAB
    /\ (pc = "done" /\ ext \in {".csv", ".tsv"}) => result # "panic: nil pointer dereference"
    /\ ext \notin {"", ".csv", ".tsv"} =>
            (pc = "done" /\ result = "unsupported file type" /\ reader = NoReader /\ lines = <<>>)

\* the text of a field without the white space around it
Stripped(text) ==
    LET solid == {k \in 1..Len(text) : ~IsSpace(text[k])}
    IN  IF solid = {} THEN <<>>
        ELSE SubSeq(text, CHOOSE k \in solid : \A j \in solid : k <= j,
                          CHOOSE k \in solid : \A j \in solid : k >= j)

NullTokens == {<<>>, <<"N", "U", "L", "L">>, <<"n", "u", "l", "l">>}

\* the record is null in the column c (from 0)
NullAt(record, c) == c >= Len(record) \/ Stripped(record[c + 1]) \in NullTokens

\* the record holds, in the column c, a value that is no number
FailsParse(record, c) == ~NullAt(record, c) /\ ~ParseFloat(Stripped(record[c + 1])).ok

\* the record holds, in the column c, a number
Parses(record, c) == ~NullAt(record, c) /\ ParseFloat(Stripped(record[c + 1])).ok

\* the record holds, in the column c, a value with a decimal point
HasPoint(record, c) == ~NullAt(record, c) /\ Contains(record[c + 1], ".")

\* analyzeColumn has just returned for the column colIdx - 1 (from 0), whose
\* name is ColumnNames[colIdx]
JustAnalyzed == colIdx >= 1 /\ ((pc = "analyze" /\ recIdx = 0) \/ Returned)

AnalyzedName == stats.ColumnNames[colIdx]

NumericTypes == {"int64", "float64"}

\* C5, one step of analyzeColumn: a value that fails the numeric parse
\* leaves the flag false, and a false flag stays false
C5_Step ==
    (/\ pc = "analyze" /\ pc' = "analyze"
     /\ colIdx' = colIdx /\ recIdx' = recIdx + 1
     /\ (~isNumeric \/ FailsParse(records[recIdx + 1], colIdx)))
        => ~isNumeric'

\* C5, the final type: a column with a value that fails the numeric parse is
\* typed string
C5_Final ==
    (JustAnalyzed /\ \E k \in 1..Len(records) : FailsParse(records[k], colIdx - 1))
        => stats.ColumnTypes[AnalyzedName] = "string"

\* C5: once a non-null value of the column fails the numeric parse, the
\* "still numeric" flag stays false for every later record of that column,
\* and the column's final type is string whatever values follow.
C5_TypeMonotone == [][C5_Step]_vars /\ []C5_Final

\* a column was typed string although a number follows the value that failed
C5_Witness ==
    /\ JustAnalyzed
    /\ stats.ColumnTypes[AnalyzedName] = "string"
    /\ \E k \in 1..Len(records), m \in 1..Len(records) :
        k < m /\ FailsParse(records[k], colIdx - 1) /\ Parses(records[m], colIdx - 1)

\* C6 as stated: after analyzeColumn a string column with a non-null value
\* has string MinValues and MaxValues, a numeric column has numeric ones.
C6_Original ==
    (JustAnalyzed /\ \E k \in 1..Len(records) : ~NullAt(records[k], colIdx - 1)) =>
        IF stats.ColumnTypes[AnalyzedName] = "string"
        THEN /\ stats.MinValues[AnalyzedName].t = "string"
             /\ stats.MaxValues[AnalyzedName].t = "string"
        ELSE /\ stats.MinValues[AnalyzedName].t = "float64"
             /\ stats.MaxValues[AnalyzedName].t = "float64"

\* C7 as stated: in the TableStats ReadTable returns, a name has an
\* Aggregates entry only if its ColumnTypes entry is int64 or float64 (and
\* a value was accepted); a column typed string has none.
C7_Original ==
    Returned =>
        \A name \in DOMAIN stats.Aggregates :
            /\ stats.ColumnTypes[name] \in NumericTypes
            /\ stats.Aggregates[name].Count >= 1

\* C8: for a file larger than MaxFileSize the records sampleRecords returns
\* number at most SampleSize, and RowCount is their number.
C8_SampleBound ==
    (LargeFile /\ stats.set /\ pc \in {"loaded", "analyze", "done"}) =>
        /\ Len(records) <= config.SampleSize
        /\ stats.RowCount = Len(records)
        /\ stats.RowCount <= config.SampleSize

\* a sample of SampleSize records out of a file that has more
C8_Witness ==
    /\ LargeFile
    /\ Returned
    /\ stats.RowCount = config.SampleSize
    /\ stats.RowCount < GoodRows

\* the type the values of the column c ask for
ExpectedType(c) ==
    IF \E k \in 1..Len(records) : FailsParse(records[k], c) THEN "string"
    ELSE IF \E k \in 1..Len(records) : HasPoint(records[k], c) THEN "float64"
    ELSE "int64"

\* C9: after analyzeColumn the column type is float64 if every non-null
\* value parsed as a number and one of them held a decimal point, int64 if
\* every non-null value parsed and none held a decimal point, string
\* otherwise.
C9_FinalType ==
    JustAnalyzed => stats.ColumnTypes[AnalyzedName] = ExpectedType(colIdx - 1)

\* a float64 column whose last number has no decimal point
C9_Witness ==
    /\ JustAnalyzed
    /\ stats.ColumnTypes[AnalyzedName] = "float64"
    /\ \E k \in 1..Len(records), m \in 1..Len(records) :
        /\ k < m
        /\ HasPoint(records[k], colIdx - 1)
        /\ Parses(records[m], colIdx - 1)
        /\ ~HasPoint(records[m], colIdx - 1)

NullRecords(c) == {k \in 1..Len(records) : NullAt(records[k], c)}

\* C10: NullCounts is the number of analysed records that are null in the
\* column (the index is beyond the last field, or the trimmed field is
\* empty, NULL or null, and no other spelling), and NullPercentage is
\* NullCounts / RowCount * 100.
C10_NullCounting ==
    JustAnalyzed =>
        /\ stats.NullCounts[AnalyzedName] = Cardinality(NullRecords(colIdx - 1))
        /\ stats.RowCount = Len(records)
        /\ stats.NullPercentage[AnalyzedName].den > 0
        /\ stats.NullPercentage[AnalyzedName].num * stats.RowCount
             = stats.NullCounts[AnalyzedName] * 100 * stats.NullPercentage[AnalyzedName].den

\* two nulls out of three records: a missing field and a NULL, beside the
\* value Null, which is none
C10_Witness ==
    /\ JustAnalyzed
    /\ colIdx = 2
    /\ Len(records) = 3
    /\ stats.NullCounts[AnalyzedName] = 2
    /\ \E k \in 1..3 : Len(records[k]) = 1
    /\ \E k \in 1..3 : Len(records[k]) = 2 /\ records[k][2] = <<"N", "U", "L", "L">>
    /\ \E k \in 1..3 : Len(records[k]) = 2 /\ records[k][2] = <<"N", "u", "l", "l">>

\* the non-null records of the column c, by their position
NonNull(c) == {k \in 1..Len(records) : ~NullAt(records[k], c)}

\* the trimmed text and the number of the record k in the column c
TextAt(k, c) == Stripped(records[k][c + 1])

NumberAt(k, c) == ParseFloat(TextAt(k, c)).val

\* s comes before t, or is t, in the order of the bytes
Precedes(s, t) ==
    \/ s = t
    \/ \E k \in 1..Len(t) :
        /\ \A j \in 1..(k - 1) : j <= Len(s) /\ s[j] = t[j]
        /\ (k > Len(s) \/ Code(s[k]) < Code(t[k]))

\* every non-null value of the column c is a number, and there is one
AllNumbers(c) == NonNull(c) # {} /\ \A k \in NonNull(c) : Parses(records[k], c)

\* the first non-null value of the column c is no number
FirstFails(c) ==
    \E k \in NonNull(c) : FailsParse(records[k], c) /\ \A j \in NonNull(c) : k <= j

C12_AllNull ==
    (JustAnalyzed /\ NonNull(colIdx - 1) = {}) =>
        /\ Len(records) >= 1
        /\ stats.NullCounts[AnalyzedName] = Len(records)
        /\ stats.NullPercentage[AnalyzedName] = [num |-> 100, den |-> 1]
        /\ stats.MinValues[AnalyzedName] = Nil
        /\ stats.MaxValues[AnalyzedName] = Nil

\* the second column holds nulls alone, after a first column with numbers
C12_Witness ==
    /\ JustAnalyzed
    /\ colIdx = 2
    /\ Len(records) >= 2
    /\ NonNull(1) = {}
    /\ AllNumbers(0)

\* ReadTable was called on a CSVReader (processFile made one, with its
\* delimiter)
CalledOnReader == reader # NoReader /\ reader.Delimiter # "nil"

\* the errors of ReadTable before any record is read
OpenErrors == {"failed to open file", "failed to get file info", "failed to read header: EOF"}

\* C13: ReadTable on a path that cannot be opened, or on a zero-byte file,
\* returns an error and no TableStats; no TableStats exists at any moment
\* of such a call.
C13_NoFileNoStats ==
    (CalledOnReader /\ lines = <<>>) =>
        /\ ~stats.set
        /\ pc = "done" => (result \in OpenErrors /\ stats = NoStats /\ ~fileOpen)

\* ReadTable has returned the header error for a zero-byte file it opened
C13_Witness ==
    /\ CalledOnReader
    /\ lines = <<>>
    /\ pc = "done"
    /\ result = "failed to read header: EOF"
    /\ stats = NoStats

\* the file holds a header row and nothing else
HeaderOnly == HeaderParses /\ Len(lines) = 1

\* C14 as stated: ReadTable on a file that contains only a header row
\* succeeds with RowCount = 0, ColumnCount the number of header fields and
\* ColumnNames the header fields in header order (the runs in which a seek,
\* a read or a position query failed set apart).
C14_Original ==
    (HeaderOnly /\ pc = "done" /\ lastIo \in {"", "ok"}) =>
        /\ result = "ok"
        /\ stats.RowCount = 0
        /\ stats.ColumnCount = HeaderFieldCount
        /\ stats.ColumnNames = ParseFields(lines[1], reader.Delimiter).fields

\* the data line k is malformed (a bare quote)
Malformed(k) == ParseFields(lines[k], reader.Delimiter).err # ""

\* the records of the well-formed data lines of the file
WellFormedRecords ==
    {ParseFields(lines[k], reader.Delimiter).fields : k \in {m \in 2..Len(lines) : ~Malformed(m)}}

\* the elements of a sequence
Range(s) == {s[k] : k \in 1..Len(s)}

\* C15 as stated: a data record that fails to parse never turns the
\* analysis into an error and never appears in the analysed records.
C15_Original ==
    HeaderParses =>
        /\ result # "failed to read CSV"
        /\ Range(records) \subseteq WellFormedRecords

\* C15, amended: in a sampled scan (a file larger than MaxFileSize) a data
\* record that fails to parse is dropped silently: it never turns the
\* analysis into a read error and never appears in the sampled or analysed
\* records; in a full scan the first data record that fails to parse (a
\* malformed one, or one of another field count than the header) ends
\* ReadTable with "failed to read CSV" and no TableStats.
C15_DroppedWhenSampled ==
    /\ LargeFile =>
            /\ result # "failed to read CSV"
            /\ Range(allRecords) \subseteq WellFormedRecords
            /\ Range(records) \subseteq WellFormedRecords
            /\ stats.set => Range(stats.SampleData) \subseteq WellFormedRecords
    /\ (SmallFile /\ ~AllRowsParse) =>
            /\ records = <<>>
            /\ pc = "done" => (result = "failed to read CSV" /\ stats = NoStats)

\* one position of a sampled scan began in the header line, read a
\* malformed record, skipped it, and collected the record that follows it
C15_Witness ==
    /\ LargeFile
    /\ pc = "trim"
    /\ config.RandomPositions = 1
    /\ Len(lines) = 3
    /\ Malformed(2)
    /\ fileSize - readerBytes < Offset(lines, 2)
    /\ allRecords = <<ParseFields(lines[3], reader.Delimiter).fields>>

\* the configuration is valid: SampleSize > 0, RandomPositions > 0 and
\* Confidence (in hundredths) strictly between 0 and 1, which NaN is not
ValidConfig(c) ==
    /\ c.SampleSize > 0
    /\ c.RandomPositions > 0
    /\ c.Confidence # NaN
    /\ 0 < c.Confidence
    /\ c.Confidence < 100

\* C16 as stated: validateConfig returns an error exactly when SampleSize
\* <= 0, or RandomPositions <= 0, or Confidence is not strictly between 0
\* and 1, and the command runs it before processFile, so that with an
\* invalid configuration no file is opened, stat'ed or read.
C16_Original ==
    pc # "run" =>
        /\ validateConfig(config) # "" <=> ~ValidConfig(config)
        /\ ~ValidConfig(config) =>
                /\ pc = "done"
                /\ result = validateConfig(config)
                /\ reader = NoReader
                /\ lines = <<>>
                /\ ~fileOpen

\* C17: whenever ReadTable succeeds, and from the moment it has set the
\* preview, SampleData is exactly the first min(5, RowCount) analysed
\* records, in order and with their field strings unchanged.
C17_Preview ==
    (pc = "analyze" \/ Returned) =>
        /\ Len(stats.SampleData) = Min(5, stats.RowCount)
        /\ \A k \in 1..Len(stats.SampleData) : stats.SampleData[k] = records[k]

\* ReadTable has returned the preview of more than five records
C17_Witness ==
    /\ Returned
    /\ stats.RowCount = 6
    /\ Len(records) = 6
    /\ Len(stats.SampleData) = 5

\* calculateAggregates has returned
Aggregated == calc.step \in {"aggregated", "returned"}

\* C18 as stated: for any non-empty numeric collection the percentiles
\* returned by calculateAggregates satisfy percentile[25] <= percentile[50]
\* <= percentile[75] <= percentile[90] <= percentile[95] <= percentile[99].
C18_Original ==
    Aggregated =>
        \A p \in percentilePoints, q \in percentilePoints :
            p <= q => calc.aggregates.Percentiles[p] <= calc.aggregates.Percentiles[q]

\* the distance between neighbouring float64 values at x, in units
Ulp(x) == Pow2(Exponent(Abs(x), 1))

\* the minimum and the maximum of a non-empty collection
Least(s) == CHOOSE x \in Range(s) : \A y \in Range(s) : x <= y

Greatest(s) == CHOOSE x \in Range(s) : \A y \in Range(s) : x >= y

RECURSIVE ExactSum(_)
ExactSum(s) == IF s = <<>> THEN 0 ELSE Head(s) + ExactSum(Tail(s))

RECURSIVE SumAbs(_)
SumAbs(s) == IF s = <<>> THEN 0 ELSE Abs(Head(s)) + SumAbs(Tail(s))

RECURSIVE SumSquares(_, _)
SumSquares(s, mean) ==
    IF s = <<>> THEN 0
    ELSE (Head(s) - mean) * (Head(s) - mean) + SumSquares(Tail(s), mean)

\* the orders in which the values of a collection can be given
RECURSIVE Orders(_)
Orders(s) ==
    IF s = <<>> THEN {<<>>}
    ELSE UNION {{<<s[k]>> \o q : q \in Orders(SubSeq(s, 1, k - 1) \o SubSeq(s, k + 1, Len(s)))} :
                    k \in 1..Len(s)}

\* C20 as stated: calculateAggregates on a non-empty collection of n values
\* returns Count = n, the Sum, Mean = Sum / n and the population Variance,
\* independently of the order of the input values, and leaves the input in
\* its original order.
C20_Original ==
    Aggregated =>
        /\ calc.values = calc.input
        /\ calc.aggregates.Count = Len(calc.input)
        /\ \A q \in Orders(calc.input) :
                /\ calculateAggregates(q).Sum = calc.aggregates.Sum
                /\ calculateAggregates(q).Mean = calc.aggregates.Mean
                /\ calculateAggregates(q).Variance = calc.aggregates.Variance

\* C20, amended: calculateAggregates on a non-empty collection of n values
\* returns Count = n, Sum = the float64 sum of the values added in the
\* order given, Mean = Sum / n and Variance = the population variance
\* sum((x - Mean)^2) / n (divisor n, not n-1), each to within the rounding
\* of its float operations, and leaves the caller's input collection in its
\* original order.
C20_Aggregates ==
    Aggregated =>
        LET n == Len(calc.input)
            a == calc.aggregates
            squares == SumSquares(calc.input, a.Mean)
        IN  /\ calc.values = calc.input
            /\ a.Count = n
            /\ a.Sum = SumLoop(calc.input, 0)
            /\ 2 * Abs(a.Sum - ExactSum(calc.input)) <= n * Ulp(SumAbs(calc.input))
            /\ 2 * Abs(a.Mean * n - a.Sum) <= n * Ulp(a.Mean)
            /\ Abs(a.Variance * n * One - squares)
                    <= (2 * n + 4) * (squares \div Pow2(Precision) + n * One)

\* calculateAggregates has returned for three values given out of order,
\* of which the sum is not exact
C20_Witness ==
    /\ Aggregated
    /\ Len(calc.input) = 3
    /\ calc.input # calc.sortedValues
    /\ calc.values = calc.input
    /\ calc.aggregates.Variance > 0
    /\ calc.aggregates.Sum # ExactSum(calc.input)

\* C21 as stated: for every sequence of field values of a column,
\* analyzeColumn finishes without a runtime panic; no comparison of a later
\* string value with a bound set while the column was numeric goes through
\* a failing type assertion.
C21_Original == result # "panic: interface conversion"

\* C22 as stated: for every file larger than MaxFileSize and every valid
\* config, when the sampling loop has ended the average bytes per record,
\* readerBytes / SampleSize in integer arithmetic, is at least 1, and
\* estimateRowCount never divides by zero.
C22_Original ==
    LargeFile =>
        /\ pc = "trim" => readerBytes \div config.SampleSize >= 1
        /\ result # "panic: integer divide by zero"

\* C23 as stated: estimateRowCount returns a strictly positive row count
\* for every positive file size, every positive sample argument and every
\* SamplingConfig it is called with, and its result does not decrease when
\* the file size grows.
C23_Original ==
    (pc = "done" /\ calc.step \in {"estimated", "panicked"}) =>
        /\ result = "ok"
        /\ calc.value > 0
        /\ estimateRowCount(2 * fileSize, readerBytes, config).rows >= calc.value

\* C24, one iteration of the loop of sampleRecords: it runs only for
\* i < RandomPositions and while fewer than SampleSize records are
\* collected, it goes on to the next position (i + 1, no retry) or leaves
\* the loop, and it adds at most max(1, SampleSize / RandomPositions)
\* records
C24_Step ==
    pc = "sample" =>
        /\ i < config.RandomPositions
        /\ Len(allRecords) < config.SampleSize
        /\ pc' \in {"sample", "trim", "done"}
        /\ pc' = "sample" => i' = i + 1
        /\ Len(allRecords') <= Len(allRecords) + Max(1, config.SampleSize \div config.RandomPositions)

\* C24: the sampling loop of sampleRecords ends after visiting at most
\* RandomPositions positions, each attempted exactly once (the counter i of
\* the positions visited before the current one stays below
\* RandomPositions and every iteration that stays in the loop adds one to
\* it); it visits no further position once SampleSize records are
\* collected; and each visited position contributes at most
\* max(1, SampleSize / RandomPositions) records.
C24_LoopTerminates ==
    /\ [][C24_Step]_vars
    /\ [](pc \in {"sample", "trim"} => (0 <= i /\ i < config.RandomPositions))

\* the loop has stopped on a full sample with a position left to visit
C24_Witness ==
    /\ pc = "trim"
    /\ i + 1 < config.RandomPositions
    /\ Len(allRecords) >= config.SampleSize

\* the exits of ReadTable after the file was opened
ExitPaths ==
    {"ok", "failed to get file info", "failed to read header", "failed to read header: EOF",
     "failed to read CSV", "failed to sample records"}

\* C25: every execution of ReadTable that opened the file has closed the
\* handle when ReadTable returns, on every exit path (success, header
\* error, full-scan read error, sampling error); the handle is open only
\* while ReadTable runs.
C25_FileClosed ==
    /\ (pc = "done" /\ result \in ExitPaths) => ~fileOpen
    /\ fileOpen => pc \in {"header", "scan", "sample", "trim", "loaded", "analyze"}

\* ReadTable has returned the sampling error for a file it had opened
C25_Witness ==
    /\ pc = "done"
    /\ lines # <<>>
    /\ result = "failed to sample records"
    /\ ~fileOpen

\* generateCSV has returned
GeneratorReturned == goroutines[Writer] = "returned"

\* C26: with at least one worker started, every batch the writer takes from
\* recordChan has been filled by a worker, and no row of the file is the
\* zero Record of a batch that no worker populated.
C26_Original ==
    generatorConfig.Workers >= 1 =>
        /\ goroutines[Writer] = "write" => batch[Writer].filled
        /\ \A k \in 1..Len(file) : file[k] # "zero"

\* the file holds the header and then exactly config.Rows data rows
RowsWritten == Len(file) = 1 + generatorConfig.Rows /\ file[1] = "header"

\* every worker that was started has received a done signal and returned,
\* and nothing is left in recordChan or waits on it
WorkersExited ==
    /\ Cardinality(Started) = generatorConfig.Workers
    /\ \A w \in Started : goroutines[w] = "exited"
    /\ done = generatorConfig.Workers
    /\ recordChan = [buf |-> <<>>, recvq |-> <<>>]

\* C27: with Workers >= 1, under fair scheduling of the goroutines,
\* generateCSV returns in the end; when it returns without an error the file
\* holds the header and exactly Rows data rows, every worker has received a
\* done signal and has exited, and no goroutine waits on recordChan or done.
C27_Returns ==
    /\ (generatorConfig.Workers >= 1) ~> GeneratorReturned
    /\ []((generatorConfig.Workers >= 1 /\ GeneratorReturned /\ err = "nil") =>
            (RowsWritten /\ WorkersExited))

\* two workers served two batches and were both stopped
C27_Witness ==
    /\ GeneratorReturned
    /\ err = "nil"
    /\ generatorConfig.Workers = MaxWorkers
    /\ generatorConfig.Rows > batchSize
    /\ RowsWritten
    /\ WorkersExited

====
